---- MODULE Spec2Model ----
(***************************************************************************)
(* Model of two scripts of nipy:                                           *)
(*   nipy/algorithms/registration/scripting.py  (space_time_realign)       *)
(*   examples/labs/need_data/localizer_glm_ar.py (the contrasts mapping)   *)
(*                                                                         *)
(* File names are sequences of their dot-separated pieces: "a.nii.gz" is   *)
(* <<"a", "nii", "gz">>.  A path is a directory (itself a sequence of      *)
(* dot-separated pieces, "sub.01" is <<"sub", "01">>) and a name.          *)
(* Motion parameters are integers; a table row is the 6-tuple              *)
(* <<t1, t2, t3, r1, r2, r3>>.                                             *)
(***************************************************************************)
EXTENDS Integers, Sequences, FiniteSets, TLC

VARIABLES
    HAVE_MPL,      \* scripting.py:15  whether matplotlib could be imported
    input,         \* argument `input` of space_time_realign
    apply,         \* argument `apply`
    make_figure,   \* argument `make_figure`
    pc,            \* position inside space_time_realign
    raised,        \* the exception that ended the call, or NoException
    fnames,        \* scripting.py:65,69  the file names, one per run
    loaded,        \* the paths handed to nib.load, in call order
    estimated,     \* whether reggy.estimate has run
    transforms,    \* reggy._within_run_transforms: per run, per scan
    run_idx,       \* loop index of the per-run loop
    rot_last,      \* scripting.py:92
    trans_last,    \* scripting.py:93
    params_arr,    \* scripting.py:95
    par_writes,    \* the mlab.rec2csv calls: <<[path, table]>>
    resampled,     \* whether reggy.resample has run
    n_resampled,   \* number of images resample returned
    img_idx,       \* loop index of the loop over resampled images
    img_writes,    \* the to_filename calls: <<path>>
    fig_writes,    \* the figure.savefig calls: <<path>>
    glm_pc,        \* position inside the contrast section of the GLM script
    n_names,       \* len(design_matrix.names)
    cond_i,        \* loop index i of the loop over conditions
    stmt,          \* index of the next assignment of lines 102-119
    contrasts      \* the `contrasts` dict: name -> value

realign_vars == <<HAVE_MPL, input, apply, make_figure, pc, raised, fnames,
                  loaded, estimated, transforms, run_idx, rot_last,
                  trans_last, params_arr, par_writes, resampled, n_resampled,
                  img_idx, img_writes, fig_writes>>
glm_vars == <<glm_pc, n_names, cond_i, stmt, contrasts>>
vars == <<realign_vars, glm_vars>>

----------------------------------------------------------------------------
(* Bounds of the model                                                     *)

\* largest number of scans in one run
MaxScans == 2
\* largest number of entries of the input directory, or of the input list
MaxFiles == 3
\* largest number of drift regressors of the design matrix
MaxDrift == 4

\* the candidate file names of the model
Names ==
    { <<"a", "nii">>, <<"a", "nii", "gz">>, <<"b", "nii">>,
      <<"b", "txt">>, <<"nii", "gz">> }

\* the candidate directories: "data" and "sub.01"
Dirs == { <<"data">>, <<"sub", "01">> }

\* the rigid transforms one scan may get from the registration
Scans ==
    { [translation |-> <<1, 2, 3>>, rotation |-> <<10, 20, 30>>],
      [translation |-> <<0, 5, 0>>, rotation |-> <<7, 0, 0>>] }

SeqsUpTo(S, n) == UNION { [1..k -> S] : k \in 1..n }

----------------------------------------------------------------------------
(* Strings and paths                                                       *)

\* the rank of a piece in string order (pieces are lower-case words)
PieceRank(p) ==
    CASE p = "a" -> 1
      [] p = "b" -> 2
      [] p = "gz" -> 3
      [] p = "nii" -> 4
      [] p = "txt" -> 5

\* m < n as strings: the first differing piece decides, a proper prefix is
\* smaller ('.' sorts before every letter)
NameLess(m, n) ==
    \E k \in 1..(Len(n)) :
        /\ \A j \in 1..(k - 1) : j <= Len(m) /\ m[j] = n[j]
        /\ \/ k = Len(m) + 1
           \/ k <= Len(m) /\ PieceRank(m[k]) < PieceRank(n[k])

\* str.endswith('.' + suffix), suffix given by its pieces
EndsWith(n, suffix) ==
    /\ Len(n) >= Len(suffix) + 1
    /\ \A j \in 1..Len(suffix) : n[Len(n) - Len(suffix) + j] = suffix[j]

\* scripting.py:62,70  f.endswith('.nii') or f.endswith('.nii.gz')
IsNifti(n) == EndsWith(n, <<"nii">>) \/ EndsWith(n, <<"nii", "gz">>)

\* a plausible slip: the listing is used in descending order
SortNames_desc(S) ==
    LET F[T \in SUBSET S] ==
            IF T = {} THEN <<>>
            ELSE LET m == CHOOSE x \in T : \A y \in T : x = y \/ NameLess(y, x)
                 IN  <<m>> \o F[T \ {m}]
    IN  F[S]

\* scripting.py:69  np.sort(list_of_files): ascending string order
SortNames(S) ==
    LET F[T \in SUBSET S] ==
            IF T = {} THEN <<>>
            ELSE LET m == CHOOSE x \in T : \A y \in T : x = y \/ NameLess(x, y)
                 IN  <<m>> \o F[T \ {m}]
    IN  F[S]

\* scripting.py:69  os.path.join(input, f)
JoinPath(d, n) == [dir |-> d, name |-> n]

\* scripting.py:111,128  fname.split('.')[0]: the path up to its first dot,
\* as the sequence of its '/'-separated components
SplitDot0(p) ==
    IF Len(p.dir) > 1 THEN <<p.dir[1]>> ELSE <<p.dir[1], p.name[1]>>

\* scripting.py:111  fnames[run_idx].split('.')[0] + '_mc.par'
ParName(p) == [stem |-> SplitDot0(p), suffix |-> "_mc.par"]

\* scripting.py:128  fnames[run_idx].split('.')[0] + '_mc.nii.gz'
McName(p) == [stem |-> SplitDot0(p), suffix |-> "_mc.nii.gz"]

\* scripting.py:144  os.path.join(os.path.split(fnames[0])[0], 'mc_params.png')
FigName(p) == [dir |-> p.dir, name |-> "mc_params.png"]

----------------------------------------------------------------------------
(* Exceptions                                                              *)

NoException == [type |-> "none", msg |-> ""]

\* scripting.py:56-57  the message built for the matplotlib check (its
\* backquotes written as quotes)
MplMessage ==
    "You need to have matplotlib installed to run this function with'make_figure' set to 'True'"

\* scripting.py:58  `RunTimeError` is no name of Python: evaluating it raises
MplCheckError ==
    [type |-> "NameError", msg |-> "name 'RunTimeError' is not defined"]

\* scripting.py:63-64
NotNiftiError ==
    [type |-> "ValueError",
     msg |-> "Input needs to be a nifti file ('.nii' or '.nii.gz'"]

\* scripting.py:61  os.path.isfile(input) with a list: os.stat raises
ListInputError ==
    [type |-> "TypeError", msg |-> "stat: path should be string, not list"]

\* scripting.py:68  os.listdir(input) of a path that does not exist
ListdirError == [type |-> "OSError", msg |-> "No such file or directory"]

\* scripting.py:111  `mlab` is bound only under `if HAVE_MPL:` (line 16-17)
MlabError == [type |-> "NameError", msg |-> "name 'mlab' is not defined"]

\* scripting.py:131  np.concatenate of an empty list
ConcatenateError ==
    [type |-> "ValueError", msg |-> "need at least one array to concatenate"]

\* a failure inside the registration library
EstimateError == [type |-> "LibraryError", msg |-> "estimate failed"]

----------------------------------------------------------------------------
(* space_time_realign                                                      *)

Inputs ==
    { [kind |-> "file", dir |-> d, name |-> n] : d \in Dirs, n \in Names }
    \cup
    { [kind |-> "dir", dir |-> d, entries |-> S] :
        d \in Dirs, S \in { T \in SUBSET Names : Cardinality(T) <= MaxFiles } }
    \cup
    { [kind |-> "list", dir |-> d, names |-> s] :
        d \in Dirs, s \in SeqsUpTo(Names, MaxFiles) }
    \cup
    { [kind |-> "missing", dir |-> d] : d \in Dirs }

RealignIdle ==
    /\ pc = "idle" /\ HAVE_MPL = TRUE /\ apply = FALSE /\ make_figure = FALSE
    /\ input = [kind |-> "missing", dir |-> <<"data">>]

RealignFresh ==
    /\ raised = NoException
    /\ fnames = <<>>
    /\ loaded = <<>>
    /\ estimated = FALSE
    /\ transforms = <<>>
    /\ run_idx = 0
    /\ rot_last = <<0, 0, 0>>
    /\ trans_last = <<0, 0, 0>>
    /\ params_arr = <<>>
    /\ par_writes = <<>>
    /\ resampled = FALSE
    /\ n_resampled = 0
    /\ img_idx = 0
    /\ img_writes = <<>>
    /\ fig_writes = <<>>

RealignInit ==
    /\ HAVE_MPL \in BOOLEAN
    /\ input \in Inputs
    /\ apply \in BOOLEAN
    /\ make_figure \in BOOLEAN
    /\ pc = "check_mpl"
    /\ RealignFresh

Raise(e) == raised' = e /\ pc' = "raised"

\* scripting.py:55
MplCheckFails == ~HAVE_MPL /\ make_figure

\* scripting.py:55-58
CheckMpl ==
    /\ pc = "check_mpl"
    /\ IF MplCheckFails
       THEN Raise(MplCheckError)
       ELSE pc' = "resolve_input" /\ UNCHANGED raised
    /\ UNCHANGED <<glm_vars, HAVE_MPL, input, apply, make_figure, fnames, loaded,
                   estimated, transforms, run_idx, rot_last, trans_last,
                   params_arr, par_writes, resampled, n_resampled, img_idx,
                   img_writes, fig_writes>>

\* a plausible slip: the image is loaded before its name is checked
FileBranch_loadfirst(inp) ==
    IF ~IsNifti(inp.name)
    THEN [error |-> NotNiftiError, fnames |-> <<>>,
          loaded |-> <<JoinPath(inp.dir, inp.name)>>]
    ELSE [error |-> NoException,
          fnames |-> <<JoinPath(inp.dir, inp.name)>>,
          loaded |-> <<JoinPath(inp.dir, inp.name)>>]

\* scripting.py:62-66  the branch taken for an existing file
FileBranch(inp) ==
    IF ~IsNifti(inp.name)
    THEN [error |-> NotNiftiError, fnames |-> <<>>, loaded |-> <<>>]
    ELSE [error |-> NoException,
          fnames |-> <<JoinPath(inp.dir, inp.name)>>,
          loaded |-> <<JoinPath(inp.dir, inp.name)>>]

\* scripting.py:69-70  the sorted listing, filtered
DirFnames(inp) ==
    LET sorted == SortNames(inp.entries)
    IN  [k \in 1..Len(SelectSeq(sorted, IsNifti)) |->
            JoinPath(inp.dir, SelectSeq(sorted, IsNifti)[k])]

\* scripting.py:68-71  the branch taken for anything that is no existing file
DirBranch(inp) ==
    [error |-> NoException, fnames |-> DirFnames(inp), loaded |-> DirFnames(inp)]

\* scripting.py:61-71
ResolveOutcome(inp) ==
    CASE inp.kind = "list" ->
            [error |-> ListInputError, fnames |-> <<>>, loaded |-> <<>>]
      [] inp.kind = "missing" ->
            [error |-> ListdirError, fnames |-> <<>>, loaded |-> <<>>]
      [] inp.kind = "file" -> FileBranch(inp)
      [] inp.kind = "dir" -> DirBranch(inp)

\* scripting.py:60-71
ResolveInput ==
    /\ pc = "resolve_input"
    /\ LET out == ResolveOutcome(input)
       IN  /\ fnames' = out.fnames
           /\ loaded' = out.loaded
           /\ IF out.error # NoException
              THEN Raise(out.error)
              ELSE pc' = "estimate" /\ UNCHANGED raised
    /\ UNCHANGED <<glm_vars, HAVE_MPL, input, apply, make_figure, estimated, transforms,
                   run_idx, rot_last, trans_last, params_arr, par_writes,
                   resampled, n_resampled, img_idx, img_writes, fig_writes>>

\* SpaceTimeRealign.estimate: what _within_run_transforms may hold for n
\* images: one list per run, one rigid transform per scan of the run
WithinRunTransforms(n) == [1..n -> SeqsUpTo(Scans, MaxScans)]

\* SpaceTimeRealign.resample: one resampled image per run
ResampledImages == Len(transforms)

\* scripting.py:77-88
Estimate ==
    /\ pc = "estimate"
    /\ \E ts \in WithinRunTransforms(Len(loaded)) : transforms' = ts
    /\ estimated' = TRUE
    /\ pc' = "runs_loop"
    /\ UNCHANGED <<glm_vars, HAVE_MPL, input, apply, make_figure, raised, fnames, loaded,
                   run_idx, rot_last, trans_last, params_arr, par_writes,
                   resampled, n_resampled, img_idx, img_writes, fig_writes>>

\* scripting.py:77-82  a failure of the library propagates unhandled
EstimateFails ==
    /\ pc = "estimate"
    /\ Raise(EstimateError)
    /\ UNCHANGED <<glm_vars, HAVE_MPL, input, apply, make_figure, fnames, loaded,
                   estimated, transforms, run_idx, rot_last, trans_last,
                   params_arr, par_writes, resampled, n_resampled, img_idx,
                   img_writes, fig_writes>>

\* scripting.py:102-108
PrepArr(this_run, t_last, r_last) ==
    [i \in 1..Len(this_run) |->
        << this_run[i].translation[1] + t_last[1],
           this_run[i].translation[2] + t_last[2],
           this_run[i].translation[3] + t_last[3],
           this_run[i].rotation[1] + r_last[1],
           this_run[i].rotation[2] + r_last[2],
           this_run[i].rotation[3] + r_last[3] >>]

\* scripting.py:113  rot_last = [prep_arr[-1][0], prep_arr[-1][1], prep_arr[-1][2]]
NextRotLast(prep_arr) ==
    LET last == prep_arr[Len(prep_arr)] IN <<last[1], last[2], last[3]>>

\* scripting.py:114  trans_last = [prep_arr[-1][3], prep_arr[-1][4], prep_arr[-1][5]]
NextTransLast(prep_arr) ==
    LET last == prep_arr[Len(prep_arr)] IN <<last[4], last[5], last[6]>>

\* scripting.py:98-114  one iteration of the loop over runs
RealignRun ==
    /\ pc = "runs_loop"
    /\ run_idx < Len(transforms)
    /\ LET prep_arr == PrepArr(transforms[run_idx + 1], trans_last, rot_last)
       IN  /\ params_arr' = Append(params_arr, prep_arr)
           /\ IF ~HAVE_MPL
              THEN /\ Raise(MlabError)
                   /\ UNCHANGED <<par_writes, rot_last, trans_last, run_idx>>
              ELSE /\ par_writes' =
                          Append(par_writes,
                                 [path |-> ParName(fnames[run_idx + 1]),
                                  table |-> prep_arr])
                   /\ rot_last' = NextRotLast(prep_arr)
                   /\ trans_last' = NextTransLast(prep_arr)
                   /\ run_idx' = run_idx + 1
                   /\ UNCHANGED <<pc, raised>>
    /\ UNCHANGED <<glm_vars, HAVE_MPL, input, apply, make_figure, fnames, loaded,
                   estimated, transforms, resampled, n_resampled, img_idx,
                   img_writes, fig_writes>>

\* scripting.py:98  the loop over runs is exhausted
RunsDone ==
    /\ pc = "runs_loop"
    /\ run_idx = Len(transforms)
    /\ pc' = "apply"
    /\ UNCHANGED <<glm_vars, HAVE_MPL, input, apply, make_figure, raised, fnames, loaded,
                   estimated, transforms, run_idx, rot_last, trans_last,
                   params_arr, par_writes, resampled, n_resampled, img_idx,
                   img_writes, fig_writes>>

\* a plausible slip: the corrected images are always produced
ShouldResample_always == TRUE

\* scripting.py:116  if apply:
ShouldResample == apply

\* scripting.py:116-119
Resample ==
    /\ pc = "apply"
    /\ ShouldResample
    /\ resampled' = TRUE
    /\ n_resampled' = ResampledImages
    /\ img_idx' = 0
    /\ pc' = "write_corrected"
    /\ UNCHANGED <<glm_vars, HAVE_MPL, input, apply, make_figure, raised, fnames, loaded,
                   estimated, transforms, run_idx, rot_last, trans_last,
                   params_arr, par_writes, img_writes, fig_writes>>

\* scripting.py:116  apply is false
SkipResample ==
    /\ pc = "apply"
    /\ ~ShouldResample
    /\ pc' = "figure"
    /\ UNCHANGED <<glm_vars, HAVE_MPL, input, apply, make_figure, raised, fnames, loaded,
                   estimated, transforms, run_idx, rot_last, trans_last,
                   params_arr, par_writes, resampled, n_resampled, img_idx,
                   img_writes, fig_writes>>

\* scripting.py:121-128  one iteration of the loop over resampled images
WriteCorrected ==
    /\ pc = "write_corrected"
    /\ img_idx < n_resampled
    /\ img_writes' = Append(img_writes, McName(fnames[img_idx + 1]))
    /\ img_idx' = img_idx + 1
    /\ UNCHANGED <<glm_vars, HAVE_MPL, input, apply, make_figure, pc, raised, fnames,
                   loaded, estimated, transforms, run_idx, rot_last,
                   trans_last, params_arr, par_writes, resampled, n_resampled,
                   fig_writes>>

\* scripting.py:121  the loop over resampled images is exhausted
CorrectedDone ==
    /\ pc = "write_corrected"
    /\ img_idx = n_resampled
    /\ pc' = "figure"
    /\ UNCHANGED <<glm_vars, HAVE_MPL, input, apply, make_figure, raised, fnames, loaded,
                   estimated, transforms, run_idx, rot_last, trans_last,
                   params_arr, par_writes, resampled, n_resampled, img_idx,
                   img_writes, fig_writes>>

\* scripting.py:130-145
MakeFigure ==
    /\ pc = "figure"
    /\ IF make_figure
       THEN IF params_arr = <<>>
            THEN Raise(ConcatenateError) /\ UNCHANGED fig_writes
            ELSE /\ fig_writes' = Append(fig_writes, FigName(fnames[1]))
                 /\ pc' = "done"
                 /\ UNCHANGED raised
       ELSE pc' = "done" /\ UNCHANGED <<raised, fig_writes>>
    /\ UNCHANGED <<glm_vars, HAVE_MPL, input, apply, make_figure, fnames, loaded,
                   estimated, transforms, run_idx, rot_last, trans_last,
                   params_arr, par_writes, resampled, n_resampled, img_idx,
                   img_writes>>

Next ==
    \/ CheckMpl
    \/ ResolveInput
    \/ Estimate
    \/ EstimateFails
    \/ RealignRun
    \/ RunsDone
    \/ Resample
    \/ SkipResample
    \/ WriteCorrected
    \/ CorrectedDone
    \/ MakeFigure

----------------------------------------------------------------------------
(* localizer_glm_ar.py: the contrasts                                      *)

\* localizer_glm_ar.py:52-54  len(conditions)
NConditions == 10

\* localizer_glm_ar.py:120  np.eye(25)
NCols == 25

\* localizer_glm_ar.py:52-54
conditions ==
    << "damier_H", "damier_V", "clicDaudio", "clicGaudio", "clicDvideo",
       "clicGvideo", "calculaudio", "calculvideo", "phrasevideo",
       "phraseaudio" >>

\* np.eye(n)[r]: row r of the identity, indexed from 0
EyeRow(n, r) == [j \in 0..(n - 1) |-> IF j = r THEN 1 ELSE 0]

Vector(f) == [ndim |-> 1, data |-> f]
Matrix(rows) == [ndim |-> 2, data |-> rows]

\* numpy's elementwise u + v, u - v and u * k on 1-d arrays of one length
VAdd(u, v) == Vector([j \in DOMAIN u.data |-> u.data[j] + v.data[j]])
VSub(u, v) == Vector([j \in DOMAIN u.data |-> u.data[j] - v.data[j]])
VScale(u, k) == Vector([j \in DOMAIN u.data |-> u.data[j] * k])

\* contrasts[name] = value
SetItem(c, name, value) ==
    [x \in DOMAIN c \cup {name} |-> IF x = name THEN value ELSE c[x]]

\* localizer_glm_ar.py:99  np.eye(len(design_matrix.names))[2 * i]
SimpleValue(n, i) == Vector(EyeRow(n, 2 * i))

\* localizer_glm_ar.py:102-119  the names assigned, in order
CompoundNames ==
    << "audio", "video", "left", "right", "computation", "sentences",
       "H-V", "V-H", "left-right", "right-left", "audio-video",
       "video-audio", "computation-sentences", "reading-visual" >>

\* localizer_glm_ar.py:102-119  the value assigned by the k-th assignment
CompoundValue(k, c) ==
    CASE k = 1 -> VAdd(VAdd(VAdd(c["clicDaudio"], c["clicGaudio"]),
                            c["calculaudio"]), c["phraseaudio"])
      [] k = 2 -> VAdd(VAdd(VAdd(c["clicDvideo"], c["clicGvideo"]),
                            c["calculvideo"]), c["phrasevideo"])
      [] k = 3 -> VAdd(c["clicGaudio"], c["clicGvideo"])
      [] k = 4 -> VAdd(c["clicDaudio"], c["clicDvideo"])
      [] k = 5 -> VAdd(c["calculaudio"], c["calculvideo"])
      [] k = 6 -> VAdd(c["phraseaudio"], c["phrasevideo"])
      [] k = 7 -> VSub(c["damier_H"], c["damier_V"])
      [] k = 8 -> VSub(c["damier_V"], c["damier_H"])
      [] k = 9 -> VSub(c["left"], c["right"])
      [] k = 10 -> VSub(c["right"], c["left"])
      [] k = 11 -> VSub(c["audio"], c["video"])
      [] k = 12 -> VSub(c["video"], c["audio"])
      [] k = 13 -> VSub(c["computation"], c["sentences"])
      [] k = 14 -> VSub(VSub(VScale(c["sentences"], 2), c["damier_H"]),
                        c["damier_V"])

\* localizer_glm_ar.py:120  np.eye(25)[::2]: every second row of the identity
EffectsOfInterest ==
    Matrix([r \in 1..((NCols + 1) \div 2) |-> EyeRow(NCols, 2 * (r - 1))])

GLMIdle ==
    /\ glm_pc = "idle" /\ n_names = NCols /\ cond_i = 0 /\ stmt = 1
    /\ contrasts = <<>>

\* localizer_glm_ar.py:73-74,96  the design matrix holds two regressors per
\* condition, the drift regressors and the constant
GLMInit ==
    /\ glm_pc = "simple"
    /\ n_names \in { 2 * NConditions + d + 1 : d \in 0..MaxDrift }
    /\ cond_i = 0
    /\ stmt = 1
    /\ contrasts = <<>>

\* localizer_glm_ar.py:98-99  one iteration of the loop over conditions
SimpleContrast ==
    /\ glm_pc = "simple"
    /\ cond_i < Len(conditions)
    /\ contrasts' =
          SetItem(contrasts, conditions[cond_i + 1], SimpleValue(n_names, cond_i))
    /\ cond_i' = cond_i + 1
    /\ UNCHANGED <<glm_pc, n_names, stmt, realign_vars>>

\* localizer_glm_ar.py:98  the loop over conditions is exhausted
SimpleDone ==
    /\ glm_pc = "simple"
    /\ cond_i = Len(conditions)
    /\ glm_pc' = "compound"
    /\ UNCHANGED <<n_names, cond_i, stmt, contrasts, realign_vars>>

\* localizer_glm_ar.py:102-119  the next assignment
CompoundContrast ==
    /\ glm_pc = "compound"
    /\ contrasts' =
          SetItem(contrasts, CompoundNames[stmt], CompoundValue(stmt, contrasts))
    /\ IF stmt = Len(CompoundNames)
       THEN glm_pc' = "effects" /\ UNCHANGED stmt
       ELSE stmt' = stmt + 1 /\ UNCHANGED glm_pc
    /\ UNCHANGED <<n_names, cond_i, realign_vars>>

\* localizer_glm_ar.py:120
EffectsContrast ==
    /\ glm_pc = "effects"
    /\ contrasts' = SetItem(contrasts, "effects_of_interest", EffectsOfInterest)
    /\ glm_pc' = "fit"
    /\ UNCHANGED <<n_names, cond_i, stmt, realign_vars>>

NextGLM ==
    \/ SimpleContrast
    \/ SimpleDone
    \/ CompoundContrast
    \/ EffectsContrast

----------------------------------------------------------------------------
(* Specifications                                                          *)

Init == RealignInit /\ GLMIdle
Spec == Init /\ [][Next]_vars

InitGLM == RealignIdle /\ RealignFresh /\ GLMInit
SpecGLM == InitGLM /\ [][NextGLM]_vars

----------------------------------------------------------------------------
(* Properties                                                              *)

NothingDone ==
    /\ loaded = <<>>
    /\ ~estimated
    /\ ~resampled
    /\ par_writes = <<>>
    /\ img_writes = <<>>
    /\ fig_writes = <<>>

AfterRuns == {"apply", "write_corrected", "figure", "done"}

EndsInNifti(n) == EndsWith(n, <<"nii">>) \/ EndsWith(n, <<"nii", "gz">>)

\* the reported parameters of the last scan of written table k (zero before
\* the first run), translations at 1..3 and rotations at 4..6
LastReported(k) ==
    IF k = 0 THEN <<0, 0, 0, 0, 0, 0>>
    ELSE par_writes[k].table[Len(par_writes[k].table)]

\* C1: the per-run tables accumulate like with like.  For every written
\* table k and scan i, the reported translation is the within-run translation
\* of scan i plus the reported translation of the last scan of run k-1, and
\* the reported rotation is the within-run rotation plus the reported
\* rotation of the last scan of run k-1 (nothing is added for the first run).
C1_CumulativeLikeWithLike ==
    \A k \in 1..Len(par_writes) :
        \A i \in 1..Len(par_writes[k].table) :
            \A c \in 1..3 :
                /\ par_writes[k].table[i][c] =
                      transforms[k][i].translation[c] + LastReported(k - 1)[c]
                /\ par_writes[k].table[i][c + 3] =
                      transforms[k][i].rotation[c] + LastReported(k - 1)[c + 3]

NonNiftiFile == input.kind = "file" /\ ~EndsInNifti(input.name)

\* C2 as stated: given an existing file whose name ends in neither '.nii'
\* nor '.nii.gz', the call ends by raising ValueError, and nothing is loaded,
\* estimated or written.
C2_NonNiftiFileRaisesValueError ==
    NonNiftiFile =>
        /\ NothingDone
        /\ pc \in {"check_mpl", "resolve_input", "raised"}
        /\ pc = "raised" => raised.type = "ValueError"

\* C2 as amended: given an existing file whose name ends in neither '.nii'
\* nor '.nii.gz', nothing is loaded, estimated or written and the call never
\* completes; it ends by raising the ValueError of the name check unless
\* matplotlib is unavailable and make_figure is True, in which case it has
\* already failed at the matplotlib check.
C2_NonNiftiFileRejected ==
    NonNiftiFile =>
        /\ NothingDone
        /\ pc \in {"check_mpl", "resolve_input", "raised"}
        /\ (pc = "raised" /\ (HAVE_MPL \/ ~make_figure)) => raised = NotNiftiError

C2_Witness ==
    /\ NonNiftiFile
    /\ pc = "raised"
    /\ raised = NotNiftiError
    /\ NothingDone

\* C3: when matplotlib is unavailable and make_figure is True, the call
\* raises a RuntimeError carrying the 'You need to have matplotlib installed'
\* message as its first action; nothing is loaded, registered or written.
C3_FigureWithoutMplRaisesRuntimeError ==
    (~HAVE_MPL /\ make_figure /\ pc # "check_mpl") =>
        /\ pc = "raised"
        /\ raised = [type |-> "RuntimeError", msg |-> MplMessage]
        /\ NothingDone

\* C4: given a list of existing NIfTI file names, the call does not raise on
\* account of the input being a list, and loads each listed file as one run,
\* in list order.
C4_ListInputAccepted ==
    ( /\ input.kind = "list"
      /\ \A k \in 1..Len(input.names) : EndsInNifti(input.names[k])
      /\ (HAVE_MPL \/ ~make_figure)
      /\ pc \notin {"check_mpl", "resolve_input"} ) =>
        /\ raised.type # "TypeError"
        /\ loaded = [k \in 1..Len(input.names) |->
                        JoinPath(input.dir, input.names[k])]

\* what C5 says of a call that has completed
C5_Post ==
    /\ ~apply => (~resampled /\ img_writes = <<>>)
    /\ apply =>
          /\ Len(img_writes) = Len(fnames)
          /\ \A k \in 1..Len(fnames) : img_writes[k] = McName(fnames[k])
    /\ Len(par_writes) = Len(fnames)
    /\ \A k \in 1..Len(fnames) : par_writes[k].path = ParName(fnames[k])

NonzeroCols(v) ==
    IF v.ndim = 1
    THEN { j \in DOMAIN v.data : v.data[j] # 0 }
    ELSE UNION { { j \in DOMAIN v.data[r] : v.data[r][j] # 0 } :
                    r \in DOMAIN v.data }

\* the condition regressors sit at 0, 2, ..., 18
ConditionCols == { 2 * i : i \in 0..(NConditions - 1) }

\* C6: with a 25-column design matrix, every entry of `contrasts` has nonzero
\* weights only on the condition regressors 0, 2, ..., 18 and zero weight on
\* every derivative, drift and constant column.
C6_ContrastsOnConditionRegressorsOnly ==
    n_names = NCols =>
        \A name \in DOMAIN contrasts :
            NonzeroCols(contrasts[name]) \subseteq ConditionCols

ValidNiftiInput ==
    \/ input.kind = "file" /\ EndsInNifti(input.name)
    \/ input.kind = "dir" /\ \E n \in input.entries : EndsInNifti(n)

\* C7: when matplotlib is unavailable and make_figure is False, a call on
\* valid NIfTI input does not fail because of the missing library, and once
\* the loop over runs is over it has written one '_mc.par' table per run.
C7_NoFigureNeedsNoMpl ==
    (~HAVE_MPL /\ ~make_figure /\ ValidNiftiInput) =>
        /\ raised.type # "NameError"
        /\ pc \in AfterRuns => Len(par_writes) = Len(loaded)

NiftiEntries == { n \in input.entries : EndsInNifti(n) }

\* the images loaded are the NIfTI entries of the directory, each once, in
\* ascending name order
C8_DirLoaded ==
    /\ Len(loaded) = Cardinality(NiftiEntries)
    /\ { loaded[k].name : k \in 1..Len(loaded) } = NiftiEntries
    /\ \A k \in 1..Len(loaded) : loaded[k].dir = input.dir
    /\ \A j, k \in 1..Len(loaded) :
            j < k => NameLess(loaded[j].name, loaded[k].name)

====
